---- MODULE Spec2Model ----
(***************************************************************************)
(* Model of hackathon_lamas_streamlit.py: a Streamlit script that loads a  *)
(* census spreadsheet, parses the WKT geometry column, keeps the rows with *)
(* a usable geometry, reprojects them and draws a choropleth of one        *)
(* numeric column chosen in a sidebar select box.                          *)
(*                                                                         *)
(* One session is modelled: the spreadsheet on disk is fixed, main() is    *)
(* executed from top to bottom, and every change of the select box makes   *)
(* Streamlit execute main() again.                                         *)
(***************************************************************************)
EXTENDS Integers, Sequences, FiniteSets, TLC

VARIABLES
    excel,            \* the spreadsheet on disk: readable, columns, rows
    pc,               \* position of the running main()
    gdf,              \* main's local gdf (NoFrame before load_data returned)
    numeric_columns,  \* main's local list of selectable columns
    selected_column,  \* main's local selected_column (NoColumn if unset/None)
    fig,              \* main's local fig (NoFig before create_choropleth returned)
    error,            \* the exception that ended the run (NoError if none)
    invoked,          \* functions of the script called so far in this run
    widget,           \* the select box's value kept by the session (NoColumn: untouched)
    runs,             \* executions of main() started in this session
    load_calls        \* calls of load_data made in this session

vars == <<excel, pc, gdf, numeric_columns, selected_column, fig, error,
          invoked, widget, runs, load_calls>>

\* ---------------------------------------------------------------- bounds
MaxRows == 3
MaxRuns == 2

\* ---------------------------------------------------------------- cells
\* A spreadsheet cell as pandas holds it: NaN (the missing marker), a str
\* or a number.
NaN == [kind |-> "float", na |-> TRUE, text |-> "", num |-> 0]
Str(s) == [kind |-> "str", na |-> FALSE, text |-> s, num |-> 0]
Num(n) == [kind |-> "int", na |-> FALSE, text |-> "", num |-> n]

isna(v) == v.na

\* ------------------------------------------------------------ geometries
None == [geom_type |-> "None", coords |-> <<>>, crs |-> ""]
Geom(t, c) == [geom_type |-> t, coords |-> c, crs |-> ""]

WktMalformed == "POLYGON ((0 0, 4 0"
WktPolygonEmpty == "POLYGON EMPTY"
WktPolygonA == "POLYGON ((0 0, 4 0, 4 2, 0 0))"
WktPolygonB == "POLYGON ((1 1, 3 1, 3 5, 1 1))"
WktPoint == "POINT (6 1)"

Return(v) == [raised |-> FALSE, value |-> v, exc |-> "", name |-> ""]
Raise(e, n) == [raised |-> TRUE, value |-> None, exc |-> e, name |-> n]

\* shapely.wkt.loads: a geometry for well-formed WKT, an exception for
\* anything else (a non-str argument, text outside the WKT grammar).
loads(wkt) ==
    IF wkt.kind # "str" THEN Raise("TypeError", "")
    ELSE CASE wkt.text = WktPolygonEmpty -> Return(Geom("Polygon", <<>>))
           [] wkt.text = WktPolygonA ->
                Return(Geom("Polygon", <<(<<0, 0>>), (<<4, 0>>), (<<4, 2>>), (<<0, 0>>)>>))
           [] wkt.text = WktPolygonB ->
                Return(Geom("Polygon", <<(<<1, 1>>), (<<3, 1>>), (<<3, 5>>), (<<1, 1>>)>>))
           [] wkt.text = WktPoint -> Return(Geom("Point", <<(<<6, 1>>)>>))
           [] OTHER -> Raise("WKTReadingError", "")

is_empty(geom) == geom.coords = <<>>

\* The try block without the is_empty test.
safe_loads_try_keeping_empty(wkt) ==
    IF isna(wkt) \/ (wkt.kind = "str" /\ wkt.text = "")
    THEN Return(None)
    ELSE loads(wkt)

\* The body of safe_loads' try block.
safe_loads_try(wkt) ==
    IF isna(wkt) \/ (wkt.kind = "str" /\ wkt.text = "")
    THEN Return(None)
    ELSE LET r == loads(wkt)
         IN  IF r.raised THEN r
             ELSE IF is_empty(r.value) THEN Return(None)
             ELSE Return(r.value)

\* The same body without the handler: what a safe_loads that lets the
\* parser's exception through would do.
safe_loads_unguarded(wkt) == safe_loads_try(wkt)

\* safe_loads: the try block, with "except Exception: return None".
safe_loads(wkt) ==
    LET r == safe_loads_try(wkt)
    IN  IF r.raised THEN Return(None) ELSE r

\* ------------------------------------------------------------ the input
excel_path == "census_2022_gdf.xlsx"

ColumnLayouts ==
    { <<"geometry", "SEMEL_YISHUV", "SHEM_YISHUV_ENG", "SHEM_YISHUV_HEB",
        "age_median", "pop_approx", "Shape_Area">>,
      <<"geometry", "SEMEL_YISHUV", "SHEM_YISHUV_ENG", "SHEM_YISHUV_HEB",
        "age_median", "Shape_Area">>,
      <<"geometry", "SEMEL_YISHUV", "SHEM_YISHUV_ENG", "SHEM_YISHUV_HEB",
        "Shape_Area">>,
      <<"SEMEL_YISHUV", "SHEM_YISHUV_ENG", "SHEM_YISHUV_HEB", "pop_approx">>,
      <<"geometry", "SEMEL_YISHUV", "pop_approx", "age_median">> }

AllColumns == {"geometry", "SEMEL_YISHUV", "SHEM_YISHUV_ENG", "SHEM_YISHUV_HEB",
               "pop_approx", "age_median", "Shape_Area"}

\* One spreadsheet row, over all columns a layout may hold.
SheetRow(g, semel, pop) ==
    [c \in AllColumns |->
        CASE c = "geometry" -> g
          [] c = "SEMEL_YISHUV" -> Num(semel)
          [] c = "SHEM_YISHUV_ENG" -> Str("Haifa")
          [] c = "SHEM_YISHUV_HEB" -> Str("Heifa")
          [] c = "pop_approx" -> pop
          [] c = "age_median" -> Num(30)
          [] c = "Shape_Area" -> Num(9)]

SheetRows ==
    { SheetRow(Str(WktPolygonA), 11, Num(100)),
      SheetRow(Str(WktPolygonA), 12, NaN),
      SheetRow(Str(WktPolygonB), 13, Num(200)),
      SheetRow(Str(WktPoint), 14, Num(300)),
      SheetRow(Str(WktPolygonEmpty), 15, Num(100)),
      SheetRow(Str(WktMalformed), 16, Num(200)),
      SheetRow(NaN, 17, Num(100)),
      SheetRow(Num(5), 18, NaN) }

SeqsUpTo(S, n) == UNION { [1..k -> S] : k \in 0..n }

\* ----------------------------------------------------------- DataFrames
NoFrame == [columns |-> <<>>, dtypes |-> <<>>, rows |-> <<>>, crs |-> "", built |-> FALSE]

Range(s) == { s[i] : i \in 1..Len(s) }

\* The dtype pandas infers for a column: a number dtype when the column
\* has cells and all of them are numbers or NaN, object otherwise.
infer_dtype(file, c) ==
    IF file.rows # <<>> /\ \A i \in 1..Len(file.rows) : file.rows[i][c].kind \in {"int", "float"}
    THEN "number" ELSE "object"

\* pd.read_excel: the sheet's columns, one row per sheet row under a
\* RangeIndex 0..n-1; FileNotFoundError when the file cannot be read.
read_excel(file, path) ==
    IF ~file.readable THEN Raise("FileNotFoundError", path)
    ELSE Return([columns |-> file.columns,
                 dtypes |-> [c \in Range(file.columns) |-> infer_dtype(file, c)],
                 rows |-> [i \in 1..Len(file.rows) |->
                             [index |-> i - 1,
                              cells |-> [c \in Range(file.columns) |-> file.rows[i][c]]]],
                 crs |-> "", built |-> TRUE])

\* df[valid_mask] and geometries[valid_mask]: boolean indexing keeps the
\* entries whose label the mask marks, in order.
BoolIndex(seq, mask) == SelectSeq(seq, LAMBDA r : mask[r.index])

\* The value a Series holds under a label.
SeriesAt(series, label) ==
    (CHOOSE e \in Range(series) : e.index = label).value

\* The point-wise transform EPSG:2039 -> EPSG:4326 of to_crs; it keeps the
\* order and the number of the points.
Transform(p) == <<p[1] + 34, p[2] + 29>>

to_crs(frame, crs) ==
    [frame EXCEPT !.crs = crs,
                  !.rows = [i \in 1..Len(frame.rows) |->
                              [frame.rows[i] EXCEPT !.geometry =
                                  [@ EXCEPT !.crs = crs,
                                            !.coords = [k \in 1..Len(@) |-> Transform(@[k])]]]]]

\* geometries.notna(): the labels whose parse gave a geometry.
valid_mask_of(geometries) ==
    [l \in { e.index : e \in Range(geometries) } |->
        SeriesAt(geometries, l) # None]

\* A GeoDataFrame built from a geometry series whose index was reset to
\* 0..k-1: label l gets the l-th kept geometry, or none when there is none.
GeoDataFrameReset(data, series, crs) ==
    [columns |-> data.columns,
     dtypes |-> [c \in Range(data.columns) |->
                   IF c = "geometry" THEN "geometry" ELSE data.dtypes[c]],
     rows |-> [i \in 1..Len(data.rows) |->
                 [index |-> data.rows[i].index,
                  cells |-> [c \in Range(data.columns) \ {"geometry"} |->
                               data.rows[i].cells[c]],
                  geometry |-> IF data.rows[i].index + 1 <= Len(series)
                               THEN [series[data.rows[i].index + 1].value EXCEPT !.crs = crs]
                               ELSE None]],
     crs |-> crs, built |-> TRUE]

\* GeoDataFrame(data, geometry=series, crs=crs): the geometry column of
\* every row is the series' value under the row's own label.
GeoDataFrame(data, series, crs) ==
    [columns |-> data.columns,
     dtypes |-> [c \in Range(data.columns) |->
                   IF c = "geometry" THEN "geometry" ELSE data.dtypes[c]],
     rows |-> [i \in 1..Len(data.rows) |->
                 [index |-> data.rows[i].index,
                  cells |-> [c \in Range(data.columns) \ {"geometry"} |->
                               data.rows[i].cells[c]],
                  geometry |-> [SeriesAt(series, data.rows[i].index) EXCEPT !.crs = crs]]],
     crs |-> crs, built |-> TRUE]

\* ------------------------------------------------------------- load_data
\* df['geometry'].apply(safe_loads): safe_loads on every cell of the
\* column, in row order, the index kept; an exception leaving safe_loads
\* leaves apply.
apply_safe_loads(df) ==
    LET outcome == [i \in 1..Len(df.rows) |-> safe_loads(df.rows[i].cells["geometry"])]
        failing == { i \in 1..Len(df.rows) : outcome[i].raised }
    IN  IF failing # {}
        THEN LET first == CHOOSE i \in failing : \A j \in failing : i <= j
             IN  Raise(outcome[first].exc, outcome[first].name)
        ELSE Return([i \in 1..Len(df.rows) |->
                        [index |-> df.rows[i].index, value |-> outcome[i].value]])

\* What load_data does once the column was parsed.
load_data_frame(df, geometries) ==
    LET valid_mask == valid_mask_of(geometries)
        kept == [df EXCEPT !.rows = BoolIndex(df.rows, valid_mask)]
    IN  to_crs(GeoDataFrame(kept, BoolIndex(geometries, valid_mask), "EPSG:2039"),
               "EPSG:4326")

\* A load_data that turns a missing geometry column into an empty frame.
load_data_absorbing(file, path) ==
    LET read == read_excel(file, path)
    IN  IF read.raised THEN Return([NoFrame EXCEPT !.built = TRUE])
        ELSE IF "geometry" \notin Range(read.value.columns)
        THEN Return([read.value EXCEPT !.rows = <<>>])
        ELSE LET applied == apply_safe_loads(read.value)
             IN  IF applied.raised THEN applied
                 ELSE Return(load_data_frame(read.value, applied.value))

\* load_data(excel_path): the GeoDataFrame, or the exception that left it.
load_data(file, path) ==
    LET read == read_excel(file, path)
    IN  IF read.raised THEN read
        ELSE IF "geometry" \notin Range(read.value.columns)
        THEN Raise("KeyError", "geometry")
        ELSE LET applied == apply_safe_loads(read.value)
             IN  IF applied.raised THEN applied
                 ELSE Return(load_data_frame(read.value, applied.value))

\* ------------------------------------------------------ create_choropleth
NoColumn == "None"
NoFig == [built |-> FALSE, locations |-> <<>>, z |-> <<>>, features |-> <<>>,
          regions |-> <<>>, color |-> NoColumn, zoom |-> 0,
          center |-> [nan |-> TRUE, lat |-> [num |-> 0, den |-> 1],
                      lon |-> [num |-> 0, den |-> 1]]]

zoom == 7

\* n / 2 as an exact fraction.
Half(n) == [num |-> n, den |-> 2]

MinOf(S) == CHOOSE m \in S : \A x \in S : m <= x
MaxOf(S) == CHOOSE m \in S : \A x \in S : x <= m

\* Points of all geometries of the frame.
AllPoints(frame) ==
    UNION { Range(frame.rows[i].geometry.coords) : i \in 1..Len(frame.rows) }

\* gdf.total_bounds: (minx, miny, maxx, maxy) over all geometries, NaN
\* in all four places when there is none.
total_bounds(frame) ==
    LET pts == AllPoints(frame)
    IN  IF pts = {} THEN [nan |-> TRUE, v |-> <<0, 0, 0, 0>>]
        ELSE [nan |-> FALSE,
              v |-> << MinOf({ p[1] : p \in pts }), MinOf({ p[2] : p \in pts }),
                       MaxOf({ p[1] : p \in pts }), MaxOf({ p[2] : p \in pts }) >>]

\* gdf.__geo_interface__: one feature per row, its id the row's label as text.
geo_interface(frame) ==
    [i \in 1..Len(frame.rows) |->
        [id |-> ToString(frame.rows[i].index),
         geometry |-> frame.rows[i].geometry,
         properties |-> frame.rows[i].cells]]

\* The regions the figure draws: one per location whose text is the id of
\* a feature, with that feature's shape and the location's colour value
\* (no colour for NaN).
rendered_regions(locations, z, features) ==
    LET hit == { k \in 1..Len(locations) :
                   \E f \in Range(features) : f.id = ToString(locations[k]) }
        region(k) ==
            [key |-> locations[k],
             geometry |-> (CHOOSE f \in Range(features) :
                              f.id = ToString(locations[k])).geometry,
             colored |-> ~isna(z[k]),
             value |-> z[k].num]
        RECURSIVE collect(_)
        collect(k) == IF k = 0 THEN <<>>
                      ELSE IF k \in hit THEN Append(collect(k - 1), region(k))
                      ELSE collect(k - 1)
    IN  collect(Len(locations))

\* A centre computed with the indices of bounds mixed up.
center_of_mixed(bounds) ==
    [nan |-> bounds.nan,
     lat |-> Half(bounds.v[1] + bounds.v[3]),
     lon |-> Half(bounds.v[2] + bounds.v[4])]

\* The centre of create_choropleth.
center_of(bounds) ==
    [nan |-> bounds.nan,
     lat |-> Half(bounds.v[2] + bounds.v[4]),
     lon |-> Half(bounds.v[1] + bounds.v[3])]

\* Locations counted 0..n-1 instead of taken from the index.
locations_positional(frame) == [i \in 1..Len(frame.rows) |-> i - 1]

\* locations=gdf.index
locations_of(frame) == [i \in 1..Len(frame.rows) |-> frame.rows[i].index]

\* create_choropleth(gdf, column_name): the figure, or the ValueError of
\* plotly express when a column it is told to use is not in the frame.
create_choropleth(frame, column_name) ==
    LET geojson == geo_interface(frame)
        bounds == total_bounds(frame)
        used == {"SHEM_YISHUV_ENG", "SHEM_YISHUV_HEB", column_name}
        missing == { c \in used : c \notin Range(frame.columns) }
        locations == locations_of(frame)
        z == [i \in 1..Len(frame.rows) |-> frame.rows[i].cells[column_name]]
    IN  IF missing # {}
        THEN Raise("ValueError", CHOOSE c \in missing : TRUE)
        ELSE Return([built |-> TRUE, locations |-> locations, z |-> z,
                     features |-> geojson,
                     regions |-> rendered_regions(locations, z, geojson),
                     color |-> column_name, zoom |-> zoom,
                     center |-> center_of(bounds)])

\* ------------------------------------------------------------------ main
NoError == [exc |-> "", name |-> "", where |-> ""]

columns_to_exclude == {"geometry", "SEMEL_YISHUV", "Shape_Length", "Shape_Area"}

\* gdf.select_dtypes(include=[np.number]).columns.tolist()
select_number_columns(frame) ==
    SelectSeq(frame.columns, LAMBDA c : frame.dtypes[c] = "number")

\* The columns offered without the exclusion list applied.
offered_columns_all(frame) == select_number_columns(frame)

\* numeric_columns of main (lines 89-92).
offered_columns(frame) ==
    SelectSeq(select_number_columns(frame), LAMBDA c : c \notin columns_to_exclude)

IndexOf(seq, x) == (CHOOSE i \in 1..Len(seq) : seq[i] = x) - 1

\* The index argument of the select box (line 98).
default_index(options) ==
    IF "pop_approx" \in Range(options) THEN IndexOf(options, "pop_approx") ELSE 0

\* st.sidebar.selectbox: None without options, the session's value when
\* the user set one that is among the options, else options[index].
selectbox(options, index, value) ==
    IF options = <<>> THEN NoColumn
    ELSE IF value \in Range(options) THEN value
    ELSE options[index + 1]

TypeOK ==
    /\ pc \in {"start", "loaded", "selected", "described", "done", "failed"}
    /\ runs \in 1..MaxRuns
    /\ load_calls \in 0..MaxRuns
    /\ invoked \subseteq {"load_data", "create_choropleth"}

Init ==
    /\ excel \in
          { [readable |-> FALSE, columns |-> <<>>, rows |-> <<>>] }
          \cup { [readable |-> TRUE, columns |-> cs, rows |-> rs] :
                   cs \in ColumnLayouts, rs \in SeqsUpTo(SheetRows, MaxRows) }
    /\ pc = "start"
    /\ gdf = NoFrame
    /\ numeric_columns = <<>>
    /\ selected_column = NoColumn
    /\ fig = NoFig
    /\ error = NoError
    /\ invoked = {}
    /\ widget = NoColumn
    /\ runs = 1
    /\ load_calls = 0

\* main, line 83: gdf = load_data("census_2022_gdf.xlsx"); an exception
\* of load_data ends the run.
MainLoad ==
    /\ pc = "start"
    /\ LET r == load_data(excel, excel_path)
       IN  IF r.raised
           THEN /\ pc' = "failed"
                /\ error' = [exc |-> r.exc, name |-> r.name, where |-> "load_data"]
                /\ gdf' = gdf
           ELSE /\ pc' = "loaded"
                /\ error' = error
                /\ gdf' = r.value
    /\ invoked' = invoked \cup {"load_data"}
    /\ load_calls' = load_calls + 1
    /\ UNCHANGED <<excel, numeric_columns, selected_column, fig, widget, runs>>

\* main, lines 89-99: the selectable columns and the select box.
MainSelect ==
    /\ pc = "loaded"
    /\ numeric_columns' = offered_columns(gdf)
    /\ selected_column' = selectbox(numeric_columns', default_index(numeric_columns'), widget)
    /\ pc' = "selected"
    /\ UNCHANGED <<excel, gdf, fig, error, invoked, widget, runs, load_calls>>

\* main, lines 102-103: gdf[selected_column].describe(); KeyError when
\* the frame has no such column.
MainDescribe ==
    /\ pc = "selected"
    /\ IF selected_column \in Range(gdf.columns)
       THEN pc' = "described" /\ error' = error
       ELSE /\ pc' = "failed"
            /\ error' = [exc |-> "KeyError", name |-> selected_column, where |-> "main"]
    /\ UNCHANGED <<excel, gdf, numeric_columns, selected_column, fig, invoked,
                   widget, runs, load_calls>>

\* main, lines 106-111: create_choropleth(gdf, selected_column) and the
\* display of its figure.
MainChoropleth ==
    /\ pc = "described"
    /\ LET r == create_choropleth(gdf, selected_column)
       IN  IF r.raised
           THEN /\ pc' = "failed"
                /\ error' = [exc |-> r.exc, name |-> r.name, where |-> "create_choropleth"]
                /\ fig' = fig
           ELSE /\ pc' = "done"
                /\ error' = error
                /\ fig' = r.value
    /\ invoked' = invoked \cup {"create_choropleth"}
    /\ UNCHANGED <<excel, gdf, numeric_columns, selected_column, widget, runs, load_calls>>

\* The script starts over: main's locals are fresh, the session's select
\* box value stays.
Restart ==
    /\ pc' = "start"
    /\ gdf' = NoFrame
    /\ numeric_columns' = <<>>
    /\ selected_column' = NoColumn
    /\ fig' = NoFig
    /\ error' = NoError
    /\ invoked' = {}
    /\ runs' = runs + 1
    /\ UNCHANGED <<excel, load_calls>>

\* The user picks an option of the select box: Streamlit runs the script
\* again (line 113-114) with the new value.
SelectboxChange ==
    /\ pc = "done"
    /\ runs < MaxRuns
    /\ \E c \in Range(numeric_columns) : c # selected_column /\ widget' = c
    /\ Restart

\* The user asks for a rerun of the script without touching a widget.
Rerun ==
    /\ pc \in {"done", "failed"}
    /\ runs < MaxRuns
    /\ widget' = widget
    /\ Restart

Next ==
    \/ MainLoad
    \/ MainSelect
    \/ MainDescribe
    \/ MainChoropleth
    \/ SelectboxChange
    \/ Rerun

Spec == Init /\ [][Next]_vars

\* ---------------------------------------------------------------- claims
\* The cell is text that shapely parses to a geometry that has points.
ParsesToNonEmptyGeometry(cell) ==
    /\ ~loads(cell).raised
    /\ loads(cell).value.coords # <<>>

\* Labels 0..n-1 of the sheet's rows whose geometry cell parses to a
\* non-empty geometry.
ValidLabels ==
    { j \in 0..(Len(excel.rows) - 1) :
        ParsesToNonEmptyGeometry(excel.rows[j + 1]["geometry"]) }

Occurrences(frame, label) ==
    Cardinality({ i \in 1..Len(frame.rows) : frame.rows[i].index = label })

\* C1: a row is in the frame load_data returned, exactly once, iff its
\* geometry cell parses to a non-empty geometry; so the frame has at most
\* as many rows as the sheet, and as many as the sheet has such rows.
C1_RowKeptIffGeometryParses ==
    gdf.built =>
        /\ \A j \in 0..(Len(excel.rows) - 1) :
              Occurrences(gdf, j) = IF j \in ValidLabels THEN 1 ELSE 0
        /\ Len(gdf.rows) <= Len(excel.rows)
        /\ Len(gdf.rows) = Cardinality(ValidLabels)

C1_Witness ==
    /\ gdf.built
    /\ Len(gdf.rows) >= 1
    /\ Len(gdf.rows) < Len(excel.rows)
    /\ \E i \in 1..Len(excel.rows) : excel.rows[i]["geometry"] = Str(WktPolygonEmpty)

\* The cell is one safe_loads has to answer with "no geometry": it is the
\* missing marker, or shapely raises on it.
Unparseable(cell) == isna(cell) \/ loads(cell).raised

SafeLoadsInputs ==
    { NaN, Str(""), Str(WktMalformed), Num(5), Str(WktPolygonEmpty),
      Str(WktPolygonA), Str(WktPolygonB), Str(WktPoint) }

\* C2: safe_loads raises for no value and answers None for the missing
\* marker, the empty string, malformed text and whatever makes the parser
\* fail; a sheet that can be read and has the geometry column loads
\* whatever its cells are, and the rows with such cells are left out.
C2_SafeLoadsNeverRaises ==
    /\ \A w \in SafeLoadsInputs :
          /\ ~safe_loads(w).raised
          /\ Unparseable(w) => safe_loads(w).value = None
    /\ (pc # "start" /\ excel.readable /\ "geometry" \in Range(excel.columns)) =>
          /\ gdf.built
          /\ error.where # "load_data"
          /\ \A j \in 0..(Len(excel.rows) - 1) :
                Unparseable(excel.rows[j + 1]["geometry"]) => Occurrences(gdf, j) = 0

C2_Witness ==
    /\ gdf.built
    /\ Len(gdf.rows) >= 1
    /\ \E i \in 1..Len(excel.rows) : excel.rows[i]["geometry"] = Str(WktMalformed)
    /\ \E i \in 1..Len(excel.rows) : excel.rows[i]["geometry"] = NaN

\* C3: every geometry of a row of the frame load_data returned is a
\* polygon or multipolygon with points.
C3_OnlyNonEmptyPolygons ==
    gdf.built =>
        \A i \in 1..Len(gdf.rows) :
            /\ gdf.rows[i].geometry.geom_type \in {"Polygon", "MultiPolygon"}
            /\ gdf.rows[i].geometry.coords # <<>>

\* The geometry the sheet's row under the label has once parsed and
\* brought to EPSG:4326.
ExpectedGeometry(label) ==
    LET g == loads(excel.rows[label + 1]["geometry"]).value
    IN  [geom_type |-> g.geom_type,
         coords |-> [k \in 1..Len(g.coords) |-> Transform(g.coords[k])],
         crs |-> "EPSG:4326"]

\* C4: the rows of the frame are in the sheet's order, each with the
\* geometry parsed from its own sheet row and with that row's other cells.
C4_OrderAndPairingKept ==
    gdf.built =>
        /\ \A i, k \in 1..Len(gdf.rows) : i < k => gdf.rows[i].index < gdf.rows[k].index
        /\ \A i \in 1..Len(gdf.rows) :
              /\ gdf.rows[i].index \in 0..(Len(excel.rows) - 1)
              /\ gdf.rows[i].geometry = ExpectedGeometry(gdf.rows[i].index)
              /\ \A c \in Range(excel.columns) \ {"geometry"} :
                    gdf.rows[i].cells[c] = excel.rows[gdf.rows[i].index + 1][c]

C4_Witness ==
    /\ gdf.built
    /\ Len(gdf.rows) = 2
    /\ gdf.rows[1].index = 0
    /\ gdf.rows[2].index = 2
    /\ gdf.rows[1].geometry # gdf.rows[2].geometry

LoadFailure == ~excel.readable \/ "geometry" \notin Range(excel.columns)

\* C5: when the file cannot be read or has no geometry column, the run
\* ends in load_data with an exception that names the file or the column;
\* main has no frame, and create_choropleth is not called.
C5_LoadFailureEndsTheRun ==
    (pc # "start" /\ LoadFailure) =>
        /\ pc = "failed"
        /\ error.where = "load_data"
        /\ error.exc = (IF excel.readable THEN "KeyError" ELSE "FileNotFoundError")
        /\ error.name = (IF excel.readable THEN "geometry" ELSE excel_path)
        /\ ~gdf.built
        /\ ~fig.built
        /\ "create_choropleth" \notin invoked

C5_Witness ==
    /\ pc = "failed"
    /\ excel.readable
    /\ excel.rows # <<>>
    /\ error.name = "geometry"

\* C6: a sheet without a single valid geometry loads to an empty frame,
\* and create_choropleth is never called on an empty frame.
C6_EmptyFrameIsNotCharted ==
    /\ (gdf.built /\ ValidLabels = {}) => Len(gdf.rows) = 0
    /\ "create_choropleth" \in invoked => Len(gdf.rows) > 0

\* C7: once the user has made a field selection, the session still has
\* called load_data only once: the runs for the selection reuse the frame.
C7_LoadedOncePerSession == widget # NoColumn => load_calls <= 1

AfterSelect ==
    \/ pc \in {"selected", "described", "done"}
    \/ pc = "failed" /\ error.where # "load_data"

Selectable(c) ==
    /\ c \in Range(gdf.columns)
    /\ gdf.dtypes[c] = "number"
    /\ c \notin {"geometry", "SEMEL_YISHUV", "Shape_Length", "Shape_Area"}

\* C8: create_choropleth is only called with a numeric column of the frame
\* outside the exclusion list; without such a column it is not called;
\* pop_approx is selected while the user chose nothing and it is selectable.
C8_OnlySelectableColumnCharted ==
    /\ "create_choropleth" \in invoked => Selectable(selected_column)
    /\ (AfterSelect /\ ~Selectable(selected_column)) =>
          /\ "create_choropleth" \notin invoked
          /\ pc \in {"selected", "failed"}
    /\ (AfterSelect /\ widget = NoColumn /\ Selectable("pop_approx")) =>
          selected_column = "pop_approx"

C8_Witness ==
    /\ pc = "done"
    /\ "create_choropleth" \in invoked
    /\ widget = NoColumn
    /\ selected_column = "pop_approx"
    /\ numeric_columns[1] # "pop_approx"

C10_CenterIsMidpointOfExtent ==
    (fig.built /\ Len(gdf.rows) > 0) =>
        LET pts == AllPoints(gdf)
        IN  /\ ~fig.center.nan
            /\ \E lo, hi \in pts :
                  /\ \A p \in pts : lo[2] <= p[2] /\ p[2] <= hi[2]
                  /\ fig.center.lat.num = lo[2] + hi[2]
                  /\ fig.center.lat.den = 2
                  /\ fig.center.lat.den * lo[2] <= fig.center.lat.num
                  /\ fig.center.lat.num <= fig.center.lat.den * hi[2]
            /\ \E lo, hi \in pts :
                  /\ \A p \in pts : lo[1] <= p[1] /\ p[1] <= hi[1]
                  /\ fig.center.lon.num = lo[1] + hi[1]
                  /\ fig.center.lon.den = 2
                  /\ fig.center.lon.den * lo[1] <= fig.center.lon.num
                  /\ fig.center.lon.num <= fig.center.lon.den * hi[1]
            /\ fig.zoom = 7

C10_Witness ==
    /\ fig.built
    /\ Len(gdf.rows) >= 2
    /\ \E i, k \in 1..Len(gdf.rows) : gdf.rows[i].geometry # gdf.rows[k].geometry
    /\ selected_column = "age_median"
====
